---- MODULE Spec2Model ----
(***************************************************************************)
(* Model of app.py: the Netflix title recommender.                         *)
(*                                                                         *)
(*   - the catalog table df read from clean_data.csv, the title Series     *)
(*     `indices`, the memoised TF-IDF cosine matrix `cosine_sim`;          *)
(*   - recommend_by_title, both as called by the page and as called        *)
(*     directly with an arbitrary title and n;                             *)
(*   - the title-mode page script;                                         *)
(*   - fetch_poster and its st.cache_data memo;                            *)
(*   - st.cache_data around compute_cosine_similarity under several        *)
(*     sessions.                                                           *)
(*                                                                         *)
(* Row positions are 1-based here (pandas/numpy positions plus one).       *)
(* A text is a sequence of lower-case tokens, the result of the            *)
(* vectorizer's tokenisation of the content string.                        *)
(***************************************************************************)
EXTENDS Integers, Sequences, FiniteSets, TLC

VARIABLES
    csv,            \* rows of clean_data.csv, as written in the file
    df,             \* the DataFrame of line 39
    indices,        \* the Series of line 41: <<title, position>> entries
    cosine_sim,     \* the matrix of line 122, or NoMatrix
    pc,             \* position of the script / of the caller
    call,           \* arguments of the last recommend_by_title call
    result,         \* its outcome
    content_type,   \* sidebar selectbox, line 152
    selected_title, \* selectbox of line 169
    movie,          \* row position picked at line 174, or 0
    posterArgs,     \* arguments given to fetch_poster at line 179
    TMDB_API_KEY,   \* line 46
    posterCache,    \* st.cache_data memo of fetch_poster
    posterOut,      \* outcome of the last fetch_poster call
    posterCalls,    \* number of fetch_poster calls made
    sess,           \* per session: position inside the cached call
    sessDf,         \* per session: the DataFrame object of this run
    simCache,       \* st.cache_data memo of compute_cosine_similarity
    locks,          \* value keys whose compute lock is held
    builds          \* per catalog content: completed matrix constructions

engineRest == <<df, indices, cosine_sim, pc, call, result,
                content_type, selected_title, movie, posterArgs>>
engineVars == <<csv, df, indices, cosine_sim, pc, call, result,
                content_type, selected_title, movie, posterArgs>>
posterVars == <<TMDB_API_KEY, posterCache, posterOut, posterCalls>>
cacheVars == <<sess, sessDf, simCache, locks, builds>>
vars == <<engineVars, posterVars, cacheVars>>

----------------------------------------------------------------------------
(* Bounds and input pools *)

MaxRows == 3
MaxN == 2

Titles == {"A", "B"}
AbsentTitle == "Z"
Types == {"Movie", "TV Show"}
\* "the" stands for sklearn's English stop-word list
StopWords == {"the"}
Contents == { <<>>, <<"the">>, <<"space", "robots">>, <<"space", "aliens">> }
NaN == <<"NaN">>
NoneTitle == "None"
\* os.getenv without the variable
NoneKey == "<None>"
NoMatrix == <<>>

CsvRows == [title : Titles, type : Types, content : Contents]
Catalogs == UNION { [1..k -> CsvRows] : k \in 1..MaxRows }
NRange == (0 - MaxN)..MaxN

----------------------------------------------------------------------------
(* Exact arithmetic on scores.  A score is the square of the cosine, kept   *)
(* as a reduced fraction <<p, q>>; squaring is monotone on [0, 1], so order *)
(* and ties of the scores are those of the cosines, and 0 and 1 are fixed.  *)

RECURSIVE GCD(_, _)
GCD(a, b) == IF b = 0 THEN a ELSE GCD(b, a % b)

Frac(p, q) == LET g == GCD(p, q) IN <<p \div g, q \div g>>
Zero == <<0, 1>>
One == <<1, 1>>

\* p1/q1 < p2/q2, by continued-fraction steps (no products, no overflow)
RECURSIVE RatLess(_, _, _, _)
RatLess(p1, q1, p2, q2) ==
    LET a == p1 \div q1
        b == p2 \div q2
        r1 == p1 % q1
        r2 == p2 % q2
    IN IF a # b THEN a < b
       ELSE IF r2 = 0 THEN FALSE
       ELSE IF r1 = 0 THEN TRUE
       ELSE RatLess(q2, r2, q1, r1)

ScoreLess(x, y) == RatLess(x[1], x[2], y[1], y[2])

----------------------------------------------------------------------------
(* LOAD DATA, lines 39-41 *)

\* pd.read_csv: an empty cell is read as NaN, every other cell as written
ReadCell(c) == IF c = <<>> THEN NaN ELSE c

read_csv(file) ==
    [i \in 1..Len(file) |->
        [title |-> file[i].title, type |-> file[i].type,
         content |-> ReadCell(file[i].content)]]

\* pd.Series(df.index, index=df['title']): entry i is <<label, value>>
TitleSeries(d) == [i \in 1..Len(d) |-> <<d[i].title, i>>]

\* Series.drop_duplicates(): keeps the first entry of every VALUE (the labels
\* play no part); the values here are the row positions
drop_duplicates(s) ==
    LET first(i) == \A j \in 1..(i - 1) : s[j][2] # s[i][2]
        RECURSIVE keep(_)
        keep(i) == IF i > Len(s) THEN <<>>
                   ELSE IF first(i) THEN <<s[i]>> \o keep(i + 1)
                   ELSE keep(i + 1)
    IN keep(1)

\* indices[title]: the values stored under the label, in Series order
Lookup(s, title) ==
    LET RECURSIVE pick(_)
        pick(i) == IF i > Len(s) THEN <<>>
                   ELSE IF s[i][1] = title THEN <<s[i][2]>> \o pick(i + 1)
                   ELSE pick(i + 1)
    IN pick(1)

----------------------------------------------------------------------------
(* COSINE SIMILARITY, lines 113-122 *)

\* TfidfVectorizer(stop_words='english'): the analysed tokens of a document
Analyze(doc) == SelectSeq(doc, LAMBDA t : t \notin StopWords)

Range(s) == { s[i] : i \in 1..Len(s) }

Count(doc, t) == Cardinality({ k \in 1..Len(doc) : doc[k] = t })

max_features == 5000

Terms(docs) == UNION { Range(Analyze(docs[i])) : i \in 1..Len(docs) }

\* occurrences of a term in the whole corpus
RECURSIVE CorpusCount(_, _, _)
CorpusCount(docs, t, i) ==
    IF i > Len(docs) THEN 0
    ELSE Count(Analyze(docs[i]), t) + CorpusCount(docs, t, i + 1)

\* the vocabulary, cut to the max_features most frequent terms
Vocabulary(docs) ==
    LET all == Terms(docs)
    IN IF Cardinality(all) <= max_features THEN all
       ELSE CHOOSE v \in SUBSET all :
              /\ Cardinality(v) = max_features
              /\ \A t \in v, u \in all \ v :
                    CorpusCount(docs, t, 1) >= CorpusCount(docs, u, 1)

DocFreq(docs, t) ==
    Cardinality({ i \in 1..Len(docs) : t \in Range(Analyze(docs[i])) })

\* natural logarithm of 1..8 in tenths
LnTenths == <<0, 7, 11, 14, 16, 18, 19, 21>>

\* smooth idf, ln((1 + n) / (1 + df)) + 1, in tenths
Idf(docs, t) == LnTenths[1 + Len(docs)] - LnTenths[1 + DocFreq(docs, t)] + 10

Weight(docs, i, t) == Count(Analyze(docs[i]), t) * Idf(docs, t)

RECURSIVE SumOver(_, _, _, _)
SumOver(docs, i, j, terms) ==
    IF terms = {} THEN 0
    ELSE LET t == CHOOSE x \in terms : TRUE
         IN Weight(docs, i, t) * Weight(docs, j, t)
            + SumOver(docs, i, j, terms \ {t})

Dot(docs, i, j) == SumOver(docs, i, j, Vocabulary(docs))

\* sklearn's linear kernel on unnormalised rows, as a score
RawDotAsCosine(docs, i, j) == Frac(Dot(docs, i, j), 1)

\* cosine_similarity: rows are l2-normalised, a zero row staying zero, and
\* multiplied; the square of that product.  The diagonal is computed like
\* every other cell
Cosine(docs, i, j) ==
    LET d == Dot(docs, i, j)
        ni == Dot(docs, i, i)
        nj == Dot(docs, j, j)
    IN IF ni = 0 \/ nj = 0 THEN Zero ELSE Frac(d * d, ni * nj)

\* fit_transform raises ValueError on a NaN document and on an empty
\* vocabulary; the decorated call then raises and nothing is stored
FitFails(d) ==
    \/ \E i \in 1..Len(d) : d[i].content = NaN
    \/ Vocabulary([i \in 1..Len(d) |-> d[i].content]) = {}

compute_cosine_similarity(d) ==
    LET docs == [i \in 1..Len(d) |-> d[i].content]
    IN [i \in 1..Len(d) |-> [j \in 1..Len(d) |-> Cosine(docs, i, j)]]

----------------------------------------------------------------------------
(* RECOMMENDATION LOGIC, lines 127-140 *)

\* a sort that leaves equal scores in reverse row order
InsertReversingTies(x, s) ==
    LET below == { k \in 1..Len(s) : ~ScoreLess(x[2], s[k][2]) }
        at == IF below = {} THEN Len(s) + 1
              ELSE CHOOSE k \in below : \A m \in below : k <= m
    IN SubSeq(s, 1, at - 1) \o <<x>> \o SubSeq(s, at, Len(s))

\* sorted(sim_scores, key=lambda x: x[1], reverse=True) is stable: a pair is
\* placed before the first pair of strictly smaller score
Insert(x, s) ==
    LET below == { k \in 1..Len(s) : ScoreLess(s[k][2], x[2]) }
        at == IF below = {} THEN Len(s) + 1
              ELSE CHOOSE k \in below : \A m \in below : k <= m
    IN SubSeq(s, 1, at - 1) \o <<x>> \o SubSeq(s, at, Len(s))

RECURSIVE SortFrom(_, _, _)
SortFrom(pairs, i, acc) ==
    IF i > Len(pairs) THEN acc ELSE SortFrom(pairs, i + 1, Insert(pairs[i], acc))

sorted(pairs) == SortFrom(pairs, 1, <<>>)

\* a filter that forgets the type test
KeepAnyType(d, i, idx, input_type) == i # idx

\* a filter that forgets to drop the reference row
KeepSelf(d, i, idx, input_type) == d[i].type = input_type

\* the condition of the list comprehension, line 136
Keep(d, i, idx, input_type) == d[i].type = input_type /\ i # idx

\* filtered[:n], Python slice semantics for every integer n
Slice(s, n) ==
    LET stop == IF n >= 0 THEN (IF n < Len(s) THEN n ELSE Len(s))
                ELSE (IF Len(s) + n > 0 THEN Len(s) + n ELSE 0)
    IN SubSeq(s, 1, stop)

Ok(rows) == [kind |-> "ok", rows |-> rows]
Raised(e) == [kind |-> e, rows |-> <<>>]
NoResult == [kind |-> "none", rows |-> <<>>]

\* an absent label answered with an empty selection
MissingLabelSilent(title) == Ok(<<>>)

\* indices[title] for a label the Series does not hold
MissingLabel(title) == Raised("KeyError")

recommend_by_title(d, ind, sim, title, n) ==
    LET at == Lookup(ind, title)
    IN IF at = <<>> THEN MissingLabel(title)
       \* several rows under the label: idx is a Series, cosine_sim[idx] is a
       \* block of rows and sorted() compares arrays
       ELSE IF Len(at) > 1 THEN Raised("ValueError")
       ELSE LET idx == at[1]
                input_type == d[idx].type
                sim_scores == [i \in 1..Len(d) |-> <<i, sim[idx][i]>>]
                ranked == sorted(sim_scores)
                filtered == SelectSeq(ranked,
                                LAMBDA p : Keep(d, p[1], idx, input_type))
                top == Slice(filtered, n)
            IN Ok([k \in 1..Len(top) |-> top[k][1]])

----------------------------------------------------------------------------
(* The script: load, similarity, then either a direct call of               *)
(* recommend_by_title or the title-mode page, lines 147-206                 *)

DefaultN == 6
NoCall == [title |-> NoneTitle, n |-> 0]

EngineIdle ==
    /\ df = <<>>
    /\ indices = <<>>
    /\ cosine_sim = NoMatrix
    /\ pc = "load"
    /\ call = NoCall
    /\ result = NoResult
    /\ content_type = "None"
    /\ selected_title = NoneTitle
    /\ movie = 0
    /\ posterArgs = <<>>

\* the file is whatever catalog was put on disk
InitEngine == csv \in Catalogs /\ EngineIdle

\* lines 39-41
LoadData ==
    /\ pc = "load"
    /\ df' = read_csv(csv)
    /\ indices' = drop_duplicates(TitleSeries(read_csv(csv)))
    /\ pc' = "similarity"
    /\ UNCHANGED <<csv, cosine_sim, call, result, content_type,
                   selected_title, movie, posterArgs>>

\* line 122; an exception ends the script run
ComputeSimilarity ==
    /\ pc = "similarity"
    /\ IF FitFails(df)
       THEN pc' = "crashed" /\ UNCHANGED cosine_sim
       ELSE pc' = "ready" /\ cosine_sim' = compute_cosine_similarity(df)
    /\ UNCHANGED <<csv, df, indices, call, result, content_type,
                   selected_title, movie, posterArgs>>

\* a caller's recommend_by_title(title, n)
CallRecommend(title, n) ==
    /\ pc = "ready"
    /\ call' = [title |-> title, n |-> n]
    /\ result' = recommend_by_title(df, indices, cosine_sim, title, n)
    /\ pc' = "returned"
    /\ UNCHANGED <<csv, df, indices, cosine_sim, content_type,
                   selected_title, movie, posterArgs>>

\* line 152
Sidebar(t) ==
    /\ pc = "ready"
    /\ content_type' = t
    /\ pc' = "sidebar"
    /\ UNCHANGED <<csv, df, indices, cosine_sim, call, result,
                   selected_title, movie, posterArgs>>

TitleOrder == <<"A", "B">>
Rank(t) == CHOOSE k \in 1..Len(TitleOrder) : TitleOrder[k] = t

\* Series.sort_values() on titles
RECURSIVE sort_values(_)
sort_values(s) ==
    IF s = <<>> THEN <<>>
    ELSE LET k == CHOOSE i \in 1..Len(s) :
                     \A j \in 1..Len(s) : Rank(s[i]) <= Rank(s[j])
         IN <<s[k]>> \o sort_values(SubSeq(s, 1, k - 1) \o SubSeq(s, k + 1, Len(s)))

\* line 167
filtered_titles(d, t) ==
    LET rows == SelectSeq(d, LAMBDA r : r.type = t)
    IN sort_values([i \in 1..Len(rows) |-> rows[i].title])

\* lines 167-172: the selectbox yields one of its options, None without options
SelectTitle ==
    /\ pc = "sidebar"
    /\ LET options == filtered_titles(df, content_type)
       IN IF options = <<>>
          THEN selected_title' = NoneTitle
          ELSE \E k \in 1..Len(options) : selected_title' = options[k]
    /\ pc' = "selected"
    /\ UNCHANGED <<csv, df, indices, cosine_sim, call, result,
                   content_type, movie, posterArgs>>

\* positions of the rows of df[df['title'] == selected_title]
RowsTitled(d, title) == { i \in 1..Len(d) : d[i].title = title }
Min(S) == CHOOSE x \in S : \A y \in S : x <= y

\* lines 174-179: .iloc[0] of an empty selection raises IndexError
ShowMovie ==
    /\ pc = "selected"
    /\ LET rows == RowsTitled(df, selected_title)
       IN IF rows = {}
          THEN pc' = "crashed" /\ UNCHANGED <<movie, posterArgs>>
          ELSE /\ movie' = Min(rows)
               /\ posterArgs' = <<df[Min(rows)].title, df[Min(rows)].type>>
               /\ pc' = "shown"
    /\ UNCHANGED <<csv, df, indices, cosine_sim, call, result,
                   content_type, selected_title>>

\* line 196
Recommend ==
    /\ pc = "shown"
    /\ call' = [title |-> selected_title, n |-> DefaultN]
    /\ result' = recommend_by_title(df, indices, cosine_sim,
                                    selected_title, DefaultN)
    /\ pc' = IF result'.kind = "ok" THEN "done" ELSE "crashed"
    /\ UNCHANGED <<csv, df, indices, cosine_sim, content_type,
                   selected_title, movie, posterArgs>>

----------------------------------------------------------------------------
(* Specification of the engine and the page *)

PosterIdle ==
    /\ TMDB_API_KEY = NoneKey
    /\ posterCache = <<>>
    /\ posterOut = <<>>
    /\ posterCalls = 0

CacheIdle ==
    /\ sess = <<>>
    /\ sessDf = <<>>
    /\ simCache = <<>>
    /\ locks = {}
    /\ builds = <<>>

Init == InitEngine /\ PosterIdle /\ CacheIdle

Next ==
    \/ LoadData /\ UNCHANGED <<posterVars, cacheVars>>
    \/ ComputeSimilarity /\ UNCHANGED <<posterVars, cacheVars>>
    \/ \E title \in Titles \cup {AbsentTitle}, n \in NRange :
          CallRecommend(title, n) /\ UNCHANGED <<posterVars, cacheVars>>
    \/ \E t \in Types : Sidebar(t) /\ UNCHANGED <<posterVars, cacheVars>>
    \/ SelectTitle /\ UNCHANGED <<posterVars, cacheVars>>
    \/ ShowMovie /\ UNCHANGED <<posterVars, cacheVars>>
    \/ Recommend /\ UNCHANGED <<posterVars, cacheVars>>

Spec == Init /\ [][Next]_vars

----------------------------------------------------------------------------
(* Properties of the engine and the page *)

Called == call # NoCall
InIndex(title) == \E i \in 1..Len(indices) : indices[i][1] = title
\* the catalog entry a title stands for: its first row
EntryOf(title) == Min(RowsTitled(df, title))
Returned == { result.rows[k] : k \in 1..Len(result.rows) }
Candidates(ref) == { i \in 1..Len(df) : i # ref /\ df[i].type = df[ref].type }
ZeroRow(i) == Analyze(df[i].content) = <<>>
Built == cosine_sim # NoMatrix

\* C1: every entry recommend_by_title returns has the type of the entry the
\* queried title resolves to
C1_TypePurity ==
    result.kind = "ok" =>
        \A i \in Returned : df[i].type = df[EntryOf(call.title)].type

\* a call returned entries from a catalog that also holds the other type
C1_Witness ==
    /\ result.kind = "ok"
    /\ Returned # {}
    /\ \E i \in 1..Len(df) : df[i].type # df[EntryOf(call.title)].type

\* C2: no returned entry carries the queried title and no row position is
\* returned twice, also in catalogs where rows share a title
C2_NoSelfNoDuplicate ==
    result.kind = "ok" =>
        /\ \A i \in Returned : df[i].title # call.title
        /\ Cardinality(Returned) = Len(result.rows)

\* two entries were returned from a catalog in which two rows share a title
C2_Witness ==
    /\ result.kind = "ok"
    /\ Len(result.rows) = 2
    /\ \E i, j \in 1..Len(df) : i # j /\ df[i].title = df[j].title

\* row i comes before row j in the ranking for reference row ref
Precedes(ref, i, j) ==
    \/ ScoreLess(cosine_sim[ref][j], cosine_sim[ref][i])
    \/ cosine_sim[ref][i] = cosine_sim[ref][j] /\ i < j

\* rows is the first n of the candidates of ref in ranking order
IsFirstN(rows, ref, n) ==
    LET all == Cardinality(Candidates(ref))
        got == { rows[k] : k \in 1..Len(rows) }
    IN /\ Len(rows) = (IF n < all THEN n ELSE all)
       /\ got \subseteq Candidates(ref)
       /\ \A k, m \in 1..Len(rows) : k < m => Precedes(ref, rows[k], rows[m])
       /\ \A c \in Candidates(ref) \ got : \A r \in got : Precedes(ref, r, c)

\* C3: for every title of the index (and n >= 0) the call returns the first n
\* same-type rows other than the reference, by score descending and, among
\* equal scores, by row position ascending
C3_RankedByScoreThenRow ==
    (Called /\ InIndex(call.title) /\ call.n >= 0) =>
        /\ result.kind = "ok"
        /\ IsFirstN(result.rows, EntryOf(call.title), call.n)

\* whenever the call returns, what it returns is the ranking C3 describes
RankingWhenReturned ==
    (result.kind = "ok" /\ call.n >= 0) =>
        IsFirstN(result.rows, EntryOf(call.title), call.n)

\* two candidates of equal score were both returned
RankingTieReached ==
    /\ result.kind = "ok"
    /\ Len(result.rows) = 2
    /\ cosine_sim[EntryOf(call.title)][result.rows[1]]
         = cosine_sim[EntryOf(call.title)][result.rows[2]]

\* C4: for every title of the index and every integer n at most n entries
\* are returned, and with fewer than n candidates the call returns them all
\* and does not fail
C4_AtMostN ==
    (Called /\ InIndex(call.title)) =>
        /\ result.kind = "ok" => Len(result.rows) <= call.n
        /\ Cardinality(Candidates(EntryOf(call.title))) < call.n =>
              /\ result.kind = "ok"
              /\ Returned = Candidates(EntryOf(call.title))

\* for n >= 0 a call that returns yields at most n entries, all candidates
\* when there are fewer than n
LengthWhenReturned ==
    (result.kind = "ok" /\ call.n >= 0) =>
        /\ Len(result.rows) <= call.n
        /\ Cardinality(Candidates(EntryOf(call.title))) < call.n =>
              Returned = Candidates(EntryOf(call.title))

\* C5: a call with a title the index does not hold ends in KeyError, never in
\* a result, and leaves catalog, index and matrix as they were
C5_UnknownTitleRaises ==
    /\ []((Called /\ ~InIndex(call.title)) => result.kind = "KeyError")
    /\ [][result'.kind = "KeyError" =>
            UNCHANGED <<df, indices, cosine_sim>>]_vars

\* a call with an absent title has ended
C5_Witness == Called /\ call.title = AbsentTitle /\ result.kind = "KeyError"

\* C6: the index maps every title to one row position, the first row that
\* carries it
C6_FirstOccurrenceWins ==
    pc # "load" =>
        \A i \in 1..Len(df) :
            Lookup(indices, df[i].title) = <<EntryOf(df[i].title)>>

C10_ShownRowIsReference ==
    (Called /\ movie # 0) =>
        /\ Lookup(indices, selected_title) = <<movie>>
        /\ df[movie].type = content_type
        /\ posterArgs = <<selected_title, content_type>>

\* the page shows a row whose type is not the type chosen in the sidebar
ShownTypeDiffers == movie # 0 /\ df[movie].type # content_type

----------------------------------------------------------------------------
(* POSTER FETCH, lines 79-108 *)

MaxPosterCalls == 2

ApiKeys == {NoneKey, "", "key"}
None == <<"None">>

\* JSON values as tagged tuples: <<"null">>, <<"bool", b>>, <<"num", k>>,
\* <<"str", s>>, <<"list", items>>, <<"dict", <<key, value>> pairs>>;
\* <<"invalid">> is a body that is no JSON text
JNull == <<"null">>
JStr(x) == <<"str", x>>
JNum(k) == <<"num", k>>
JList(items) == <<"list", items>>
JDict(pairs) == <<"dict", pairs>>

Bodies == <<
    <<"invalid">>,
    JDict(<<>>),
    JDict(<< <<"results", JList(<<>>)>> >>),
    JDict(<< <<"results", JList(<< JDict(<< <<"poster_path", JStr("/p.jpg")>> >>) >>)>> >>),
    JDict(<< <<"results", JList(<< JDict(<< <<"poster_path", JNull>> >>) >>)>> >>),
    JDict(<< <<"results", JList(<< JDict(<< <<"id", JNum(7)>> >>) >>)>> >>),
    JDict(<< <<"results", JList(<< JDict(<< <<"poster_path", JNum(7)>> >>) >>)>> >>),
    JDict(<< <<"results", JList(<< JNull >>)>> >>),
    JDict(<< <<"results", JDict(<< <<"page", JNum(1)>> >>)>> >>),
    JDict(<< <<"results", JStr("none")>> >>),
    JDict(<< <<"results", JNum(3)>> >>),
    JList(<<>>),
    JNull
>>

Statuses == {200, 401, 404, 500}
\* what requests.get does: an exception of requests.exceptions, or a response
Outcomes ==
    { <<"Timeout">>, <<"ConnectionError">> }
        \cup { <<"response", st, b>> : st \in Statuses, b \in 1..Len(Bodies) }

\* lines 85-88
SearchUrl(ct) ==
    IF ct = "Movie" THEN "https://api.themoviedb.org/3/search/movie"
    ELSE "https://api.themoviedb.org/3/search/tv"

\* Python truth value of a JSON value
Truthy(v) ==
    CASE v[1] = "null" -> FALSE
      [] v[1] = "bool" -> v[2]
      [] v[1] = "num" -> v[2] # 0
      [] v[1] = "str" -> v[2] # ""
      [] OTHER -> Len(v[2]) > 0

\* dict.get(key): the value, None without the key
DictGet(v, key) ==
    LET hits == { k \in 1..Len(v[2]) : v[2][k][1] = key }
    IN IF hits = {} THEN JNull ELSE v[2][Min(hits)][2]

Value(v) == [kind |-> "value", value |-> v, exc |-> "-"]
Raises(e) == [kind |-> "raised", value |-> None, exc |-> e]

\* lines 100-105, data being the parsed body
PosterFromData(data) ==
    IF data[1] # "dict" THEN Raises("AttributeError")            \* data.get
    ELSE LET results == DictGet(data, "results")
         IN IF ~Truthy(results) THEN Value(None)
            ELSE IF results[1] = "dict" THEN Raises("KeyError")   \* results[0]
            ELSE IF results[1] \in {"num", "bool"} THEN Raises("TypeError")
            ELSE LET first == IF results[1] = "list" THEN results[2][1]
                              ELSE JStr("c")                      \* a character
                 IN IF first[1] # "dict" THEN Raises("AttributeError")
                    ELSE LET poster_path == DictGet(first, "poster_path")
                         IN IF ~Truthy(poster_path) THEN Value(None)
                            ELSE IF poster_path[1] # "str"
                                 THEN Raises("TypeError")         \* str + other
                            ELSE Value(<<"https://image.tmdb.org/t/p/w500",
                                         poster_path[2]>>)

\* the body of fetch_poster.  Timeout, ConnectionError and the JSONDecodeError
\* of response.json() are RequestExceptions and are caught at line 107
fetch_poster(key, title, ct, outcome) ==
    IF key \in {NoneKey, ""} THEN Value(None)
    ELSE IF outcome[1] # "response" THEN Value(None)
    ELSE IF outcome[2] # 200 THEN Value(None)
    ELSE IF Bodies[outcome[3]][1] = "invalid" THEN Value(None)
    ELSE PosterFromData(Bodies[outcome[3]])

InitPoster ==
    /\ TMDB_API_KEY \in ApiKeys
    /\ posterCache = <<>>
    /\ posterOut = <<>>
    /\ posterCalls = 0

\* a call of the decorated function, line 79: st.cache_data answers from its
\* memo, keyed by the arguments; a returned value is stored, an exception is
\* passed on and nothing is stored
FetchPoster(title, ct, outcome) ==
    /\ posterCalls < MaxPosterCalls
    /\ posterCalls' = posterCalls + 1
    /\ IF <<title, ct>> \in DOMAIN posterCache
       THEN /\ posterOut' = [args |-> <<title, ct>>, url |-> "-", outcome |-> <<"memo">>,
                             out |-> Value(posterCache[<<title, ct>>])]
            /\ UNCHANGED posterCache
       ELSE LET out == fetch_poster(TMDB_API_KEY, title, ct, outcome)
            IN /\ posterOut' = [args |-> <<title, ct>>, url |-> SearchUrl(ct),
                                outcome |-> outcome, out |-> out]
               /\ posterCache' = IF out.kind = "value"
                                 THEN (<<title, ct>> :> out.value) @@ posterCache
                                 ELSE posterCache
    /\ UNCHANGED TMDB_API_KEY

NextPoster ==
    \E title \in Titles, ct \in Types, outcome \in Outcomes :
        FetchPoster(title, ct, outcome) /\ UNCHANGED <<engineVars, cacheVars>>

InitPosterSpec == InitPoster /\ csv = <<>> /\ EngineIdle /\ CacheIdle

SpecPoster == InitPosterSpec /\ [][NextPoster]_vars

PosterCalled == posterCalls > 0
FreshCall == PosterCalled /\ posterOut.outcome # <<"memo">>

\* C9: fetch_poster never raises to its caller; every failure resolves to None
C9_NeverRaises == PosterCalled => posterOut.out.kind = "value"

\* what the code does guarantee: without a key, on a requests exception, on a
\* status other than 200, on a body that is no JSON, on a JSON object without
\* results or whose first result is an object without poster data, the call
\* returns None; a URL comes only from a 200 response
PosterAbsentOnFailure ==
    FreshCall =>
        LET o == posterOut.outcome
            b == Bodies[o[3]]
        IN /\ (TMDB_API_KEY \in {NoneKey, ""} \/ o[1] # "response" \/ o[2] # 200)
                => posterOut.out = Value(None)
           /\ (posterOut.out.kind = "value" /\ posterOut.out.value # None)
                => (o[1] = "response" /\ o[2] = 200 /\ TMDB_API_KEY = "key")

----------------------------------------------------------------------------
(* st.cache_data around compute_cosine_similarity, lines 113 and 122, with   *)
(* several sessions running the script                                       *)

NumSessions == 2
Sessions == 1..NumSessions

\* the states of clean_data.csv during the process's life
FileA == << [title |-> "A", type |-> "Movie", content |-> <<"space", "robots">>],
            [title |-> "B", type |-> "Movie", content |-> <<"space", "aliens">>] >>
FileB == << [title |-> "A", type |-> "Movie", content |-> <<"space", "robots">>],
            [title |-> "B", type |-> "TV Show", content |-> <<"the">>] >>
FileNaN == << [title |-> "A", type |-> "Movie", content |-> <<>>] >>
Files == {FileA, FileB, FileNaN}

\* the file a table was read from
FileOf(rows) == CHOOSE f \in Files : read_csv(f) = rows

NoTable == [id |-> 0, rows |-> <<>>]

\* a key made of the object's identity
KeyOfIdentity(d) == <<"id", d.id>>

\* the value key st.cache_data derives from the argument: a hash of the
\* table's content
ValueKey(d) == <<"content", d.rows>>

\* a lock that never blocks
LockAlwaysFree(key) == TRUE

\* the compute lock of a value key can be taken
LockFree(key) == key \notin locks

InitCache ==
    /\ sess = [s \in Sessions |-> "idle"]
    /\ sessDf = [s \in Sessions |-> NoTable]
    /\ simCache = <<>>
    /\ locks = {}
    /\ builds = [f \in Files |-> 0]

\* a page run starts: line 39 makes a new DataFrame object from the file; the
\* table of session s is a different object from that of any other session
StartRun(s) ==
    /\ sess[s] = "idle"
    /\ sessDf' = [sessDf EXCEPT ![s] = [id |-> s, rows |-> read_csv(csv)]]
    /\ sess' = [sess EXCEPT ![s] = "lookup"]
    /\ UNCHANGED <<csv, simCache, locks, builds>>

\* line 122, the decorated call: a first read of the memo
CacheRead(s) ==
    /\ sess[s] = "lookup"
    /\ sess' = [sess EXCEPT ![s] =
                  IF ValueKey(sessDf[s]) \in DOMAIN simCache THEN "hit" ELSE "wait"]
    /\ UNCHANGED <<csv, sessDf, simCache, locks, builds>>

\* on a miss the session takes the key's compute lock
Acquire(s) ==
    /\ sess[s] = "wait"
    /\ LockFree(ValueKey(sessDf[s]))
    /\ locks' = locks \cup {ValueKey(sessDf[s])}
    /\ sess' = [sess EXCEPT ![s] = "locked"]
    /\ UNCHANGED <<csv, sessDf, simCache, builds>>

\* and reads the memo again under the lock
Recheck(s) ==
    /\ sess[s] = "locked"
    /\ IF ValueKey(sessDf[s]) \in DOMAIN simCache
       THEN /\ sess' = [sess EXCEPT ![s] = "hit"]
            /\ locks' = locks \ {ValueKey(sessDf[s])}
       ELSE /\ sess' = [sess EXCEPT ![s] = "computing"]
            /\ UNCHANGED locks
    /\ UNCHANGED <<csv, sessDf, simCache, builds>>

\* lines 114-120 run, the result is written to the memo and the lock is
\* released; an exception releases the lock and leaves the memo as it was
Compute(s) ==
    /\ sess[s] = "computing"
    /\ locks' = locks \ {ValueKey(sessDf[s])}
    /\ IF FitFails(sessDf[s].rows)
       THEN /\ sess' = [sess EXCEPT ![s] = "raised"]
            /\ UNCHANGED <<builds, simCache>>
       ELSE /\ sess' = [sess EXCEPT ![s] = "hit"]
            /\ builds' = [builds EXCEPT ![FileOf(sessDf[s].rows)] = @ + 1]
            /\ simCache' = (ValueKey(sessDf[s])
                              :> compute_cosine_similarity(sessDf[s].rows))
                           @@ simCache
    /\ UNCHANGED <<csv, sessDf>>

\* the rest of the script runs and the session waits for the next rerun
EndRun(s) ==
    /\ sess[s] \in {"hit", "raised"}
    /\ sess' = [sess EXCEPT ![s] = "idle"]
    /\ sessDf' = [sessDf EXCEPT ![s] = NoTable]
    /\ UNCHANGED <<csv, simCache, locks, builds>>

\* the file is replaced on disk
ReplaceFile(f) ==
    /\ f # csv
    /\ csv' = f
    /\ UNCHANGED cacheVars

InitCacheSpec == InitCache /\ csv \in Files /\ EngineIdle /\ PosterIdle

NextCache ==
    \/ \E s \in Sessions : StartRun(s) /\ UNCHANGED <<engineRest, posterVars>>
    \/ \E s \in Sessions : CacheRead(s) /\ UNCHANGED <<engineRest, posterVars>>
    \/ \E s \in Sessions : Acquire(s) /\ UNCHANGED <<engineRest, posterVars>>
    \/ \E s \in Sessions : Recheck(s) /\ UNCHANGED <<engineRest, posterVars>>
    \/ \E s \in Sessions : Compute(s) /\ UNCHANGED <<engineRest, posterVars>>
    \/ \E s \in Sessions : EndRun(s) /\ UNCHANGED <<engineRest, posterVars>>
    \/ \E f \in Files : ReplaceFile(f) /\ UNCHANGED <<engineRest, posterVars>>

SpecCache == InitCacheSpec /\ [][NextCache]_vars

\* C8: the matrix of a catalog content is constructed at most once, whatever
\* the page runs and their interleaving, and a session whose call has ended
\* holds the memo's entry for the content of its table
C8_BuiltOncePerContent ==
    /\ \A f \in Files : builds[f] <= 1
    /\ \A s \in Sessions :
          sess[s] = "hit" =>
              /\ ValueKey(sessDf[s]) \in DOMAIN simCache
              /\ simCache[ValueKey(sessDf[s])]
                    = compute_cosine_similarity(sessDf[s].rows)

\* two sessions hold tables of equal content and distinct identity, both
\* calls have ended, one construction was made; the file had been replaced
\* meanwhile
C8_Witness ==
    /\ sess[1] = "hit" /\ sess[2] = "hit"
    /\ sessDf[1].rows = sessDf[2].rows
    /\ sessDf[1].id # sessDf[2].id
    /\ \E f \in Files : builds[f] = 1 /\ read_csv(f) = sessDf[1].rows
    /\ \E f, g \in Files : f # g /\ builds[f] = 1 /\ builds[g] = 1

====
